---- MODULE Spec2Model ----
(***************************************************************************)
(* Model of apps/platformapi/main.py: the IPv4 host validator, the PLAY    *)
(* RECAP parser and the /ansible/ping handler (validation, inventory       *)
(* construction, command construction, process run, cleanup).              *)
(*                                                                         *)
(* Python strings are sequences of one-character strings.  A JSON value    *)
(* that is not a string is the one-element sequence NonStr, whose element  *)
(* is not a character.                                                     *)
(***************************************************************************)
EXTENDS Integers, Sequences, FiniteSets, TLC

VARIABLES
    v_addr,          \* is_valid_ipv4: the argument of the call under test
    v_result,        \* is_valid_ipv4: [done, value], value its return value once done
    r_output,        \* parse_play_recap: the argument of the call under test
    r_n,             \* parse_play_recap: the number of pieces r_output is made of
    r_summary,       \* parse_play_recap: [done, ret], ret its return value once done
    DEFAULT_TARGETS, \* the module-global name read at line 116
    fs,              \* the temporary directory: name -> [exists, data, owner]
    frame            \* the local variables and position of each handler invocation

vars == <<v_addr, v_result, r_output, r_n, r_summary, DEFAULT_TARGETS, fs, frame>>

(***************************************************************************)
(* Bounds of the model.                                                    *)
(***************************************************************************)
MaxParts == 5        \* dot-separated segments of a validator input
MaxPieces == 5       \* pieces a parser input is assembled from
MaxHosts == 2        \* entries of a request's "hosts" list
MaxLeaks == 1        \* temporary files that failed unlinks may leave behind

(***************************************************************************)
(* Characters and Python string primitives.                                *)
(***************************************************************************)
Digit == {"0", "1", "2", "3", "4", "5", "6", "7", "8", "9"}
Letter == {"a", "b", "c", "d", "e", "f", "g", "h", "i", "j", "k", "l", "m",
           "n", "o", "p", "q", "r", "s", "t", "u", "v", "w", "x", "y", "z",
           "A", "C", "E", "L", "P", "R", "Y"}
Whitespace == {" ", "\n", "\t", "\r"}
Punct == {".", "+", "-", "_", ":", "=", "*", ";", "/"}
Char == Digit \cup Letter \cup Whitespace \cup Punct

NonStr == <<"<non-str>">>

\* isinstance(x, str)
IsStr(x) == \A i \in 1..Len(x) : x[i] \in Char

DigitVal(c) ==
    CASE c = "0" -> 0 [] c = "1" -> 1 [] c = "2" -> 2 [] c = "3" -> 3
      [] c = "4" -> 4 [] c = "5" -> 5 [] c = "6" -> 6 [] c = "7" -> 7
      [] c = "8" -> 8 [] c = "9" -> 9

SetMin(S) == CHOOSE x \in S : \A y \in S : x <= y
SetMax(S) == CHOOSE x \in S : \A y \in S : y <= x

\* str.strip(): drop leading and trailing whitespace
Strip(s) ==
    LET keep == {i \in 1..Len(s) : s[i] \notin Whitespace}
    IN  IF keep = {} THEN <<>> ELSE SubSeq(s, SetMin(keep), SetMax(keep))

\* str.split(sep) for a one-character separator
RECURSIVE Split(_, _)
Split(s, sep) ==
    LET at == {i \in 1..Len(s) : s[i] = sep}
    IN  IF at = {} THEN <<s>>
        ELSE <<SubSeq(s, 1, SetMin(at) - 1)>>
                 \o Split(SubSeq(s, SetMin(at) + 1, Len(s)), sep)

\* sep.join(parts)
RECURSIVE Join(_, _)
Join(parts, sep) ==
    IF parts = <<>> THEN <<>>
    ELSE IF Len(parts) = 1 THEN parts[1]
    ELSE parts[1] \o sep \o Join(Tail(parts), sep)

\* the value of a sequence of decimal digits
RECURSIVE DecValue(_)
DecValue(ds) ==
    IF ds = <<>> THEN 0
    ELSE 10 * DecValue(SubSeq(ds, 1, Len(ds) - 1)) + DigitVal(ds[Len(ds)])

\* int(p) for a str p: [ok |-> FALSE] stands for ValueError.  Python strips
\* surrounding whitespace, takes an optional sign, and allows single
\* underscores between digits.
PyInt(p) ==
    LET s == Strip(p)
        signed == s # <<>> /\ s[1] \in {"+", "-"}
        body == IF signed THEN Tail(s) ELSE s
        wellFormed ==
            /\ body # <<>>
            /\ \A i \in 1..Len(body) : body[i] \in Digit \cup {"_"}
            /\ body[1] \in Digit
            /\ body[Len(body)] \in Digit
            /\ \A i \in 1..(Len(body) - 1) : ~(body[i] = "_" /\ body[i + 1] = "_")
        mag == DecValue(SelectSeq(body, LAMBDA c : c \in Digit))
    IN  IF ~wellFormed THEN [ok |-> FALSE, val |-> 0]
        ELSE [ok |-> TRUE, val |-> IF signed /\ s[1] = "-" THEN 0 - mag ELSE mag]

(***************************************************************************)
(* is_valid_ipv4 (lines 20-34).                                            *)
(***************************************************************************)
\* the loop of lines 28-31 with the except of lines 32-33: TRUE when no
\* segment raises ValueError and none is out of range
OctetsInRange(parts) ==
    \A k \in 1..Len(parts) :
        LET i == PyInt(parts[k])
        IN  i.ok /\ ~(i.val < 0 \/ i.val > 255)

is_valid_ipv4(addr) ==
    IF ~IsStr(addr) THEN FALSE
    ELSE LET parts == Split(addr, ".")
         IN  IF Len(parts) # 4 THEN FALSE
             ELSE OctetsInRange(parts)

(***************************************************************************)
(* parse_play_recap (lines 36-64).                                         *)
(***************************************************************************)
Marker == <<"P", "L", "A", "Y", " ", "R", "E", "C", "A", "P", " ">>

\* \w of the regular expression at line 59
WordChar == Letter \cup Digit \cup {"_"}

\* the last index of the maximal run of characters of S that starts at i,
\* or i - 1 when s[i] is not in S
RECURSIVE RunEnd(_, _, _)
RunEnd(s, i, S) ==
    IF i <= Len(s) /\ s[i] \in S THEN RunEnd(s, i + 1, S) ELSE i - 1

\* "PLAY RECAP \*+\n" matches at position i exactly when the marker text is
\* there, at least one star follows, and the run of stars ends in a newline
HeaderAt(s, i) ==
    /\ i + Len(Marker) - 1 <= Len(s)
    /\ SubSeq(s, i, i + Len(Marker) - 1) = Marker
    /\ LET e == RunEnd(s, i + Len(Marker), {"*"})
       IN  e >= i + Len(Marker) /\ e + 1 <= Len(s) /\ s[e + 1] = "\n"

\* group(1) of re.search at line 44, for an output in which the header
\* matches somewhere: the leftmost header, then the shortest text that is
\* followed by "\n\n" or by the end of the string
RecapBody(s) ==
    LET i == SetMin({k \in 1..Len(s) : HeaderAt(s, k)})
        b == RunEnd(s, i + Len(Marker), {"*"}) + 2
        ends == {e \in b..Len(s) : e + 1 <= Len(s) /\ s[e] = "\n" /\ s[e + 1] = "\n"}
        stop == IF ends = {} THEN Len(s) + 1 ELSE SetMin(ends)
    IN  SubSeq(s, b, stop - 1)

\* str.splitlines() over the line boundaries "\n", "\r" and "\r\n"
RECURSIVE SplitLines(_)
SplitLines(s) ==
    LET at == {i \in 1..Len(s) : s[i] \in {"\n", "\r"}}
    IN  IF s = <<>> THEN <<>>
        ELSE IF at = {} THEN <<s>>
        ELSE LET i == SetMin(at)
                 n == IF s[i] = "\r" /\ i + 1 <= Len(s) /\ s[i + 1] = "\n"
                      THEN i + 2 ELSE i + 1
             IN  <<SubSeq(s, 1, i - 1)>> \o SplitLines(SubSeq(s, n, Len(s)))

\* "(\w+)=([0-9]+)" matches at position i
KvAt(s, i) ==
    /\ i <= Len(s)
    /\ s[i] \in WordChar
    /\ LET w == RunEnd(s, i, WordChar)
       IN  /\ w + 2 <= Len(s)
           /\ s[w + 1] = "="
           /\ s[w + 2] \in Digit

\* re.finditer at line 59 from position i on: the <<key, value>> pairs of
\* the successive non-overlapping matches, in order
RECURSIVE KvMatches(_, _)
KvMatches(s, i) ==
    IF i > Len(s) THEN <<>>
    ELSE IF KvAt(s, i)
    THEN LET w == RunEnd(s, i, WordChar)
             d == RunEnd(s, w + 2, Digit)
         IN  <<<<SubSeq(s, i, w), DecValue(SubSeq(s, w + 2, d))>>>>
                 \o KvMatches(s, d + 1)
    ELSE KvMatches(s, i + 1)

\* a dict filled by successive d[key] = value assignments
DictOf(pairs) ==
    [k \in {pairs[i][1] : i \in DOMAIN pairs} |->
        pairs[SetMax({i \in DOMAIN pairs : pairs[i][1] = k})][2]]

\* lines 48-63 for one line of the body: <<>> when the line is skipped,
\* else the one pair <<host, stats>>
RecapLine(raw) ==
    LET line == Strip(raw)
        colons == {i \in 1..Len(line) : line[i] = ":"}
    IN  IF line = <<>> \/ colons = {} THEN <<>>
        ELSE LET c == SetMin(colons)
             IN  <<<<Strip(SubSeq(line, 1, c - 1)),
                     DictOf(KvMatches(SubSeq(line, c + 1, Len(line)), 1))>>>>

RECURSIVE RecapPairs(_)
RecapPairs(lines) ==
    IF lines = <<>> THEN <<>>
    ELSE RecapLine(lines[1]) \o RecapPairs(Tail(lines))

parse_play_recap(output) ==
    IF output = <<>> THEN DictOf(<<>>)
    ELSE IF \A k \in 1..Len(output) : ~HeaderAt(output, k) THEN DictOf(<<>>)
    ELSE DictOf(RecapPairs(SplitLines(Strip(RecapBody(output)))))

(***************************************************************************)
(* State of the /ansible/ping handler (lines 109-188).                     *)
(***************************************************************************)
Calls == {"c1", "c2"}                 \* handler invocations that may overlap
TmpNames == {"tmpa", "tmpb", "tmpc"}  \* names tempfile can generate

H1 == <<"1", "0", ".", "0", ".", "0", ".", "1">>
H2 == <<"1", "0", ".", "0", ".", "0", ".", "2">>
BadHost == <<"b", "a", "d">>

\* DEFAULT_TARGETS is read at line 116 and assigned nowhere in main.py: the
\* name is unbound unless the deployment binds it in the module namespace.
Unbound == [bound |-> FALSE, value |-> <<>>]
Configured == [bound |-> TRUE, value |-> <<H1, H2>>]

NoFile == [exists |-> FALSE, data |-> <<>>, owner |-> "nobody"]

\* a response: keys is the set of keys the returned dict has
NoReturn ==
    [keys |-> {}, success |-> FALSE, error |-> "", returncode |-> 0,
     stdout |-> <<>>, stderr |-> <<>>, cmd |-> <<>>, play_summary |-> DictOf(<<>>)]

ErrorResponse(msg) ==
    [NoReturn EXCEPT !.keys = {"success", "error"}, !.error = msg]

NoHostsMsg == "No valid IPv4 hosts provided"
NoPlaybookMsg == "Playbook not found at BASE_DIR/ansible/ping.yml"
NoInventoryMsg == "Inventory not found at BASE_DIR/ansible/inventory.yml"
NoBinaryMsg == "ansible-playbook binary not found in PATH. Install ansible in the container."
TimeoutMsg == "Ansible command timed out"

\* the request body: kind "None" is an absent or malformed body (request.json()
\* raised), "notDict" a JSON value that is no dict, "dictNoHosts" a dict
\* without the key "hosts", "dictHosts" a dict with it; isList and items
\* describe the value of "hosts"
NoPayload == [kind |-> "None", isList |-> FALSE, items |-> <<>>]

\* strings that are no IPv4 address and that int() at line 29 lets through:
\* a trailing newline, signed segments
NewlineHost == H1 \o <<"\n">>
SignedHost == <<"+", "7", ".", "+", "7", ".", "+", "7", ".", "+", "7">>

HostItems == {H1, H2, BadHost, NewlineHost, SignedHost}

\* lists of strings, and two lists with an entry that is no string
HostLists ==
    UNION { [1..k -> HostItems] : k \in 0..MaxHosts }
    \cup { <<NonStr>>, <<H1, NonStr>> }

Payloads ==
    { NoPayload,
      [kind |-> "notDict", isList |-> FALSE, items |-> <<>>],
      [kind |-> "dictNoHosts", isList |-> FALSE, items |-> <<>>],
      [kind |-> "dictHosts", isList |-> FALSE, items |-> <<>>] }
    \cup { [kind |-> "dictHosts", isList |-> TRUE, items |-> l] : l \in HostLists }

\* the output of a finished ansible-playbook run: nothing, or a recap
Stdouts ==
    { <<>>,
      Marker \o <<"*", "\n">> \o H1 \o <<" ", ":", " ", "o", "k", "=", "1", "\n">> }

\* what the process wrote to its standard error
Stderrs == { <<>>, <<"b", "o", "o", "m", "\n">> }

ExitCodes == {0, 2}

\* the room, in characters, the file system may have for a temporary file:
\* anything from none to enough for the longest inventory
Rooms == 0..MaxHosts * (Len(SignedHost) + 1)

\* room for nothing, or for everything
NoneOrAll == {0, MaxHosts * (Len(SignedHost) + 1)}

\* the requests of the specification of overlapping invocations
FewPayloads ==
    { NoPayload,
      [kind |-> "dictHosts", isList |-> TRUE, items |-> <<H1>>],
      [kind |-> "dictHosts", isList |-> TRUE, items |-> <<H2, BadHost>>] }

IdleFrame ==
    [pc |-> "idle", request |-> NoPayload, payload |-> NoPayload,
     hosts |-> <<>>, valid_hosts |-> <<>>,
     use_tmp_inventory |-> FALSE, tmp_inv |-> "None", inv_path |-> <<>>,
     cmd |-> <<>>, exc |-> "none", ret |-> NoReturn,
     created |-> 0, launches |-> 0, unlinks |-> 0,
     unlink_failed |-> FALSE, cause |-> "none"]

HandlerIdle ==
    /\ fs = [n \in TmpNames |-> NoFile]
    /\ frame = [c \in Calls |-> IdleFrame]

\* payload and isinstance(payload, dict) and "hosts" in payload (lines 122, 142)
HasHostsKey(p) == p.kind = "dictHosts"

\* lines 122-125: the hosts the call validates; hosts is the list that line
\* 116 read from DEFAULT_TARGETS
ChosenHosts(p, hosts) ==
    IF HasHostsKey(p) /\ p.isList /\ \A i \in 1..Len(p.items) : IsStr(p.items[i])
    THEN p.items
    ELSE hosts

\* line 128
ValidHosts(hosts) == SelectSeq(hosts, is_valid_ipv4)

\* lines 147-148: the text written to the temporary inventory
RECURSIVE InventoryText(_)
InventoryText(hs) ==
    IF hs = <<>> THEN <<>> ELSE hs[1] \o <<"\n">> \o InventoryText(Tail(hs))

\* a temporary file opened under a name that may be in use
AnyName(files) == TmpNames

\* tempfile.NamedTemporaryFile creates its file exclusively (line 145): the
\* name is one no existing file has
FreshNames(files) == {n \in TmpNames : ~files[n].exists}

PlaybookPath == <<"BASE_DIR/ansible/ping.yml">>
InventoryFile == <<"BASE_DIR/ansible/inventory.yml">>
TmpPath(n) == <<"/tmp/", n>>

\* a command that also passes the first validated host as an argument
CommandWithLimit(f) ==
    << <<"ansible-playbook">>, <<"-i">>, f.inv_path, <<"BASE_DIR/ansible/ping.yml">>,
       <<"--user">>, <<"ec2-user">>,
       <<"--private-key">>, <<"/home/app/.ssh/id_rsa">>,
       <<"--ssh-extra-args">>,
       <<"-o StrictHostKeyChecking=no -o UserKnownHostsFile=/dev/null">>,
       <<"--limit">>, f.valid_hosts[1] >>

\* lines 156-167, for the frame f of the call
Command(f) ==
    << <<"ansible-playbook">>, <<"-i">>, f.inv_path, PlaybookPath,
       <<"--user">>, <<"ec2-user">>,
       <<"--private-key">>, <<"/home/app/.ssh/id_rsa">>,
       <<"--ssh-extra-args">>,
       <<"-o StrictHostKeyChecking=no -o UserKnownHostsFile=/dev/null">> >>

\* lines 170-178
NormalResponse(rc, out, err, cmd) ==
    [keys |-> {"success", "returncode", "stdout", "stderr", "cmd", "play_summary"},
     success |-> (rc = 0), error |-> "", returncode |-> rc,
     stdout |-> out, stderr |-> err, cmd |-> Join(cmd, <<" ">>),
     play_summary |-> parse_play_recap(out)]

\* line 184
ShouldUnlink(f) == f.tmp_inv # "None"

\* the files no running invocation will unlink any more
Leaked ==
    {n \in TmpNames :
        /\ fs[n].exists
        /\ \A c \in Calls :
              ~(frame[c].tmp_inv = n /\ frame[c].pc \in {"command", "running", "finally"})}

(***************************************************************************)
(* The handler, one action per stretch of code between two points at       *)
(* which the call waits for the outside world.                             *)
(***************************************************************************)
\* line 116, and line 118 up to the await: the request p has reached the
\* route; the call reads DEFAULT_TARGETS, which raises NameError when the
\* name is unbound, and then waits for the body
ReadDefaults(c, p) ==
    /\ frame[c].pc = "idle"
    /\ frame' = [frame EXCEPT ![c] =
         IF ~DEFAULT_TARGETS.bound
         THEN [@ EXCEPT !.request = p, !.exc = "NameError", !.pc = "done"]
         ELSE [@ EXCEPT !.request = p, !.hosts = DEFAULT_TARGETS.value,
                        !.pc = "awaiting"]]
    /\ UNCHANGED <<v_addr, v_result, r_output, r_n, r_summary, DEFAULT_TARGETS, fs>>

\* lines 118-136: request.json() resumes with the body, or raises and leaves
\* payload None; playbook_exists is what playbook_path.exists() answers
Receive(c, playbook_exists) ==
    /\ frame[c].pc = "awaiting"
    /\ frame' = [frame EXCEPT ![c] =
         LET p == frame[c].request
             hosts == ChosenHosts(p, frame[c].hosts)
             valid == ValidHosts(hosts)
             f == [@ EXCEPT !.payload = p, !.hosts = hosts, !.valid_hosts = valid]
         IN  IF valid = <<>>
             THEN [f EXCEPT !.ret = ErrorResponse(NoHostsMsg), !.pc = "done"]
             ELSE IF ~playbook_exists
             THEN [f EXCEPT !.ret = ErrorResponse(NoPlaybookMsg), !.pc = "done"]
             ELSE [f EXCEPT !.pc = "inventory"]]
    /\ UNCHANGED <<v_addr, v_result, r_output, r_n, r_summary, DEFAULT_TARGETS, fs>>

\* lines 142-149, no usable temporary directory: NamedTemporaryFile raises
\* FileNotFoundError, which the except clause of line 179 catches
TmpDirMissing(c) ==
    /\ frame[c].pc = "inventory"
    /\ HasHostsKey(frame[c].payload)
    /\ frame' = [frame EXCEPT ![c] =
         [@ EXCEPT !.use_tmp_inventory = TRUE, !.cause = "no_tmpdir",
                   !.ret = ErrorResponse(NoBinaryMsg), !.pc = "finally"]]
    /\ UNCHANGED <<v_addr, v_result, r_output, r_n, r_summary, DEFAULT_TARGETS, fs>>

\* lines 142-149, NamedTemporaryFile raises another OSError (PermissionError,
\* or FileExistsError when no name is free): no except clause catches it
TmpCreateFails(c) ==
    /\ frame[c].pc = "inventory"
    /\ HasHostsKey(frame[c].payload)
    /\ frame' = [frame EXCEPT ![c] =
         [@ EXCEPT !.use_tmp_inventory = TRUE, !.cause = "create_failed",
                   !.exc = "OSError", !.pc = "finally"]]
    /\ UNCHANGED <<v_addr, v_result, r_output, r_n, r_summary, DEFAULT_TARGETS, fs>>

\* lines 142-149, the file is created under the name n.  f.write fills a
\* buffer and the text goes out when the with statement closes the file; the
\* file system has room for room characters: the file takes that much of the
\* text, and when it is not all of it OSError is raised
WriteTmpInventory(c, n, room) ==
    /\ frame[c].pc = "inventory"
    /\ HasHostsKey(frame[c].payload)
    /\ n \in FreshNames(fs)
    /\ LET text == InventoryText(frame[c].valid_hosts)
           k == SetMin({room, Len(text)})
           f == [frame[c] EXCEPT !.use_tmp_inventory = TRUE, !.tmp_inv = n,
                                 !.created = @ + 1]
       IN  /\ fs' = [fs EXCEPT ![n] =
                [exists |-> TRUE, data |-> SubSeq(text, 1, k), owner |-> c]]
           /\ frame' = [frame EXCEPT ![c] =
                IF k = Len(text)
                THEN [f EXCEPT !.inv_path = TmpPath(n), !.pc = "command"]
                ELSE [f EXCEPT !.cause = "write_failed", !.exc = "OSError",
                               !.pc = "finally"]]
    /\ UNCHANGED <<v_addr, v_result, r_output, r_n, r_summary, DEFAULT_TARGETS>>

\* lines 150-154; inventory_exists is what inventory_file.exists() answers
UseStaticInventory(c, inventory_exists) ==
    /\ frame[c].pc = "inventory"
    /\ ~HasHostsKey(frame[c].payload)
    /\ frame' = [frame EXCEPT ![c] =
         IF inventory_exists
         THEN [@ EXCEPT !.inv_path = InventoryFile, !.pc = "command"]
         ELSE [@ EXCEPT !.ret = ErrorResponse(NoInventoryMsg), !.pc = "finally"]]
    /\ UNCHANGED <<v_addr, v_result, r_output, r_n, r_summary, DEFAULT_TARGETS, fs>>

\* lines 156-169, subprocess.run starts the process, or raises at once:
\* FileNotFoundError (no such binary, caught at line 179) or another OSError
\* (the binary is not executable; nothing catches it)
Launch(c, how) ==
    /\ frame[c].pc = "command"
    /\ how \in {"started", "binary_missing", "launch_failed"}
    /\ LET f == [frame[c] EXCEPT !.cmd = Command(frame[c])]
       IN  frame' = [frame EXCEPT ![c] =
             CASE how = "started" ->
                    [f EXCEPT !.launches = @ + 1, !.pc = "running"]
               [] how = "binary_missing" ->
                    [f EXCEPT !.cause = how, !.ret = ErrorResponse(NoBinaryMsg),
                              !.pc = "finally"]
               [] how = "launch_failed" ->
                    [f EXCEPT !.cause = how, !.exc = "OSError", !.pc = "finally"]]
    /\ UNCHANGED <<v_addr, v_result, r_output, r_n, r_summary, DEFAULT_TARGETS, fs>>

\* lines 169-178: the process exits with code rc, output out and error
\* output err
ProcessExits(c, rc, out, err) ==
    /\ frame[c].pc = "running"
    /\ frame' = [frame EXCEPT ![c] =
         [@ EXCEPT !.cause = "exited",
                   !.ret = NormalResponse(rc, out, err, frame[c].cmd),
                   !.pc = "finally"]]
    /\ UNCHANGED <<v_addr, v_result, r_output, r_n, r_summary, DEFAULT_TARGETS, fs>>

\* line 169: the process exits, but its output is not valid text:
\* subprocess.run(text=True) raises UnicodeDecodeError, which no except
\* clause catches
ProcessOutputUndecodable(c) ==
    /\ frame[c].pc = "running"
    /\ frame' = [frame EXCEPT ![c] =
         [@ EXCEPT !.cause = "exited_undecodable", !.exc = "UnicodeDecodeError",
                   !.pc = "finally"]]
    /\ UNCHANGED <<v_addr, v_result, r_output, r_n, r_summary, DEFAULT_TARGETS, fs>>

\* lines 169, 181-182: the process outlives the timeout of 120 seconds
ProcessTimesOut(c) ==
    /\ frame[c].pc = "running"
    /\ frame' = [frame EXCEPT ![c] =
         [@ EXCEPT !.cause = "timeout", !.ret = ErrorResponse(TimeoutMsg),
                   !.pc = "finally"]]
    /\ UNCHANGED <<v_addr, v_result, r_output, r_n, r_summary, DEFAULT_TARGETS, fs>>

\* lines 183-188: the finally clause; unlink_ok is whether Path.unlink()
\* succeeds on an existing file (on a missing file it always raises); its
\* exception is swallowed
Cleanup(c, unlink_ok) ==
    /\ frame[c].pc = "finally"
    /\ IF ShouldUnlink(frame[c])
       THEN LET n == frame[c].tmp_inv
                removed == fs[n].exists /\ unlink_ok
            IN  /\ unlink_ok \/ Cardinality(Leaked) < MaxLeaks
                /\ fs' = IF removed THEN [fs EXCEPT ![n] = NoFile] ELSE fs
                /\ frame' = [frame EXCEPT ![c] =
                     [@ EXCEPT !.unlinks = @ + 1, !.unlink_failed = ~removed,
                               !.pc = "done"]]
       ELSE /\ unlink_ok
            /\ fs' = fs
            /\ frame' = [frame EXCEPT ![c] = [@ EXCEPT !.pc = "done"]]
    /\ UNCHANGED <<v_addr, v_result, r_output, r_n, r_summary, DEFAULT_TARGETS>>

\* the response, or the unhandled exception, has left the handler: the
\* invocation is over and the next request may arrive
Respond(c) ==
    /\ frame[c].pc = "done"
    /\ frame' = [frame EXCEPT ![c] = IdleFrame]
    /\ fs' = [n \in TmpNames |->
                IF fs[n].owner = c THEN [fs[n] EXCEPT !.owner = "nobody"] ELSE fs[n]]
    /\ UNCHANGED <<v_addr, v_result, r_output, r_n, r_summary, DEFAULT_TARGETS>>

(***************************************************************************)
(* Specification of is_valid_ipv4 alone: the argument is NonStr or a       *)
(* string of at most MaxParts segments joined by dots; the function is     *)
(* applied to whatever argument has been assembled.                        *)
(***************************************************************************)
Segments ==
    { <<>>, <<"2", "5", "5">>, <<"2", "5", "6">>, <<"0", "7">>, <<" ", "7">>,
      <<"+", "7">>, <<"-", "7">>, <<"7", "_", "0">>, <<"a">> }

NotCalled == [done |-> FALSE, value |-> FALSE]

PureIdle ==
    /\ v_addr = <<>>
    /\ v_result = NotCalled
    /\ r_output = <<>>
    /\ r_n = 0
    /\ r_summary = [done |-> FALSE, ret |-> DictOf(<<>>)]

InitIPv4 ==
    /\ v_addr \in Segments \cup {NonStr}
    /\ v_result = NotCalled
    /\ r_output = <<>>
    /\ r_n = 0
    /\ r_summary = [done |-> FALSE, ret |-> DictOf(<<>>)]
    /\ DEFAULT_TARGETS = Unbound
    /\ HandlerIdle

AddSegment(seg) ==
    /\ ~v_result.done
    /\ IsStr(v_addr)
    /\ Len(Split(v_addr, ".")) < MaxParts
    /\ v_addr' = v_addr \o <<".">> \o seg
    /\ UNCHANGED <<v_result, r_output, r_n, r_summary, DEFAULT_TARGETS, fs, frame>>

Validate ==
    /\ ~v_result.done
    /\ v_result' = [done |-> TRUE, value |-> is_valid_ipv4(v_addr)]
    /\ UNCHANGED <<v_addr, r_output, r_n, r_summary, DEFAULT_TARGETS, fs, frame>>

NextIPv4 ==
    \/ \E seg \in Segments : AddSegment(seg)
    \/ Validate

SpecIPv4 == InitIPv4 /\ [][NextIPv4]_vars

(***************************************************************************)
(* Specification of parse_play_recap alone: the argument is assembled      *)
(* from at most MaxPieces pieces of ansible-playbook output; the function  *)
(* is applied to whatever argument has been assembled.                     *)
(***************************************************************************)
Pieces ==
    { Marker \o <<"*">>, <<"*">>, <<"\n">>, <<" ">>,
      <<"h", " ", ":", " ", "o", "k", "=", "1">>,
      <<"g", ":", "o", "k", "=", "2", " ", "n", "o", "=", "x">> }

InitRecap ==
    /\ PureIdle
    /\ DEFAULT_TARGETS = Unbound
    /\ HandlerIdle

AddPiece(p) ==
    /\ ~r_summary.done
    /\ r_n < MaxPieces
    /\ r_output' = r_output \o p
    /\ r_n' = r_n + 1
    /\ UNCHANGED <<v_addr, v_result, r_summary, DEFAULT_TARGETS, fs, frame>>

ParseRecap ==
    /\ ~r_summary.done
    /\ r_summary' = [done |-> TRUE, ret |-> parse_play_recap(r_output)]
    /\ UNCHANGED <<v_addr, v_result, r_output, r_n, DEFAULT_TARGETS, fs, frame>>

NextRecap ==
    \/ \E p \in Pieces : AddPiece(p)
    \/ ParseRecap

SpecRecap == InitRecap /\ [][NextRecap]_vars

(***************************************************************************)
(* Specification of the handler: overlapping invocations over one          *)
(* temporary directory.                                                    *)
(***************************************************************************)
Init ==
    /\ PureIdle
    /\ DEFAULT_TARGETS = Unbound
    /\ HandlerIdle

\* main.py assigns DEFAULT_TARGETS nowhere; the specification speaks of a
\* configured default host list: the deployment binds the name to it
Configure ==
    /\ DEFAULT_TARGETS = Unbound
    /\ DEFAULT_TARGETS' = Configured
    /\ UNCHANGED <<v_addr, v_result, r_output, r_n, r_summary, fs, frame>>

\* every step the invocation c can take; requests is the set its request
\* is drawn from, outputs the set the <<stdout, stderr>> of its process is
\* drawn from, rooms the set the room of the file system is drawn from
Serve(c, requests, outputs, rooms) ==
    \/ \E p \in requests : ReadDefaults(c, p)
    \/ \E e \in BOOLEAN : Receive(c, e)
    \/ TmpDirMissing(c)
    \/ TmpCreateFails(c)
    \/ \E n \in TmpNames, room \in rooms : WriteTmpInventory(c, n, room)
    \/ \E e \in BOOLEAN : UseStaticInventory(c, e)
    \/ \E how \in {"started", "binary_missing", "launch_failed"} : Launch(c, how)
    \/ \E rc \in ExitCodes, o \in outputs : ProcessExits(c, rc, o[1], o[2])
    \/ ProcessOutputUndecodable(c)
    \/ ProcessTimesOut(c)
    \/ \E ok \in BOOLEAN : Cleanup(c, ok)
    \/ Respond(c)

\* one invocation at a time, any request, any room in the file system
Next == Configure \/ Serve("c1", Payloads, Stdouts \X Stderrs, Rooms)

Spec == Init /\ [][Next]_vars

\* overlapping invocations: the event loop runs another invocation while one
\* waits for its body, and the blocking steps overlap across workers
NextConcurrent ==
    Configure \/ \E c \in Calls : Serve(c, FewPayloads, {<< <<>>, <<>> >>}, NoneOrAll)

SpecConcurrent == Init /\ [][NextConcurrent]_vars

(***************************************************************************)
(* Properties.                                                             *)
(***************************************************************************)
\* the request names hosts: a list of strings under the key "hosts"
Explicit(p) ==
    /\ p.kind = "dictHosts"
    /\ p.isList
    /\ \A i \in 1..Len(p.items) : IsStr(p.items[i])

\* the file the invocation c created is still there
OwnFileExists(c) ==
    /\ frame[c].tmp_inv # "None"
    /\ fs[frame[c].tmp_inv].exists
    /\ fs[frame[c].tmp_inv].owner = c

\* C2: every call ends in a returned response, never in an exception that
\* leaves the handler, and a call that ran no process to completion returns
\* success = false with an error message.
C2_NoExceptionEscapes ==
    \A c \in Calls :
        frame[c].pc = "done" =>
            /\ frame[c].exc = "none"
            /\ "success" \in frame[c].ret.keys
            /\ frame[c].cause # "exited" =>
                  /\ ~frame[c].ret.success
                  /\ "error" \in frame[c].ret.keys

\* C3: a request whose hosts are a list of strings none of which is a valid
\* IPv4 address is answered with the error "No valid IPv4 hosts provided",
\* and the call creates no temporary file and runs no process.
C3_AllInvalidRejected ==
    \A c \in Calls :
        (/\ frame[c].pc = "done"
         /\ Explicit(frame[c].request)
         /\ \A i \in 1..Len(frame[c].request.items) :
               ~is_valid_ipv4(frame[c].request.items[i]))
        => /\ frame[c].ret = ErrorResponse(NoHostsMsg)
           /\ frame[c].exc = "none"
           /\ frame[c].created = 0
           /\ frame[c].launches = 0

\* the IPv4 grammar of the claim: four dot-separated segments, each a
\* non-empty run of decimal digits and nothing else, each value in 0..255
StrictIPv4(addr) ==
    /\ IsStr(addr)
    /\ LET parts == Split(addr, ".")
       IN  /\ Len(parts) = 4
           /\ \A k \in 1..4 :
                 /\ parts[k] # <<>>
                 /\ \A i \in 1..Len(parts[k]) : parts[k][i] \in Digit
                 /\ DecValue(parts[k]) \in 0..255

\* C4: is_valid_ipv4 returns true exactly for the strings of the strict
\* IPv4 grammar, and false for everything else.
C4_StrictGrammar ==
    v_result.done => (v_result.value <=> StrictIPv4(v_addr))

\* C5: a call whose request gives no hosts (no body, no "hosts" key, or an
\* empty list) validates the configured default host list, and does not end
\* in a fault or in "No valid IPv4 hosts provided" for lack of hosts.
C5_DefaultsWhenNoHosts ==
    \A c \in Calls :
        (/\ frame[c].pc = "done"
         /\ \/ frame[c].request.kind # "dictHosts"
            \/ (Explicit(frame[c].request) /\ frame[c].request.items = <<>>))
        => /\ frame[c].exc # "NameError"
           /\ frame[c].hosts = Configured.value
           /\ frame[c].ret # ErrorResponse(NoHostsMsg)

\* the strings a request supplies as hosts
SuppliedHosts(p) == {p.items[i] : i \in 1..Len(p.items)}

\* C6: the commands built for any two calls have the same length and agree
\* at every position but the inventory path after -i; the other arguments
\* are the fixed configuration, and no host string supplied by either request
\* is an argument.
C6_CommandFixed ==
    \A c, d \in Calls :
        (frame[c].cmd # <<>> /\ frame[d].cmd # <<>>) =>
            /\ Len(frame[c].cmd) = 10
            /\ Len(frame[c].cmd) = Len(frame[d].cmd)
            /\ \A i \in 1..Len(frame[c].cmd) :
                  i # 3 => frame[c].cmd[i] = frame[d].cmd[i]
            /\ frame[c].cmd[1] = <<"ansible-playbook">>
            /\ frame[c].cmd[2] = <<"-i">>
            /\ frame[c].cmd[5] = <<"--user">>
            /\ frame[c].cmd[6] = <<"ec2-user">>
            /\ frame[c].cmd[7] = <<"--private-key">>
            /\ frame[c].cmd[9] = <<"--ssh-extra-args">>
            /\ \A i \in 1..Len(frame[c].cmd) :
                  frame[c].cmd[i] \notin
                      SuppliedHosts(frame[c].request) \cup SuppliedHosts(frame[d].request)

C6_Witness ==
    /\ frame["c1"].pc = "running"
    /\ frame["c2"].pc = "running"
    /\ frame["c1"].request.items = <<H1>>
    /\ frame["c2"].request.items = <<H2, BadHost>>
    /\ frame["c1"].cmd[3] # frame["c2"].cmd[3]

\* the request names at least one IPv4 address
NamesAnAddress(p) ==
    Explicit(p) /\ \E i \in 1..Len(p.items) : StrictIPv4(p.items[i])

\* C7: when the request names hosts and at least one is a valid IPv4 address,
\* the call goes on to write the temporary inventory, it stops short of that
\* only when the playbook is missing or the file cannot be created, and the
\* lines of the file the process is given are exactly the IPv4 addresses of
\* the request's list, in its order, repeats kept, everything else left out.
C7_InventoryIsValidSubset ==
    \A c \in Calls :
        NamesAnAddress(frame[c].request) =>
            /\ (frame[c].pc \in {"command", "running"}) =>
                  /\ frame[c].created = 1
                  /\ OwnFileExists(c)
                  /\ Split(fs[frame[c].tmp_inv].data, "\n") =
                        SelectSeq(frame[c].request.items, StrictIPv4) \o << <<>> >>
            /\ (frame[c].pc = "done" /\ frame[c].created = 0) =>
                  \/ frame[c].ret = ErrorResponse(NoPlaybookMsg)
                  \/ frame[c].cause \in {"no_tmpdir", "create_failed"}

\* the text after the newline of the leftmost recap header
AfterHeader(s) ==
    LET i == SetMin({k \in 1..Len(s) : HeaderAt(s, k)})
    IN  SubSeq(s, RunEnd(s, i + Len(Marker), {"*"}) + 2, Len(s))

\* the lines of a sequence of lines that come before its first empty line
RECURSIVE UntilBlank(_)
UntilBlank(lines) ==
    IF lines = <<>> \/ lines[1] = <<>> THEN <<>>
    ELSE <<lines[1]>> \o UntilBlank(Tail(lines))

\* C8: the summary holds no host but those of the lines between the recap
\* header line and the first blank line (or the end of the output) after it,
\* and it is empty when the output is empty or has no header.
C8_BodyEndsAtFirstBlankLine ==
    r_summary.done =>
        IF \A k \in 1..Len(r_output) : ~HeaderAt(r_output, k)
        THEN r_summary.ret = DictOf(<<>>)
        ELSE r_summary.ret =
                DictOf(RecapPairs(UntilBlank(Split(AfterHeader(r_output), "\n"))))

\* the temporary inventory of c is in use: written, and not yet unlinked
HoldsTmp(c) ==
    frame[c].tmp_inv # "None" /\ frame[c].pc \in {"command", "running", "finally"}

C10_State ==
    /\ \A c, d \in Calls :
          (c # d /\ HoldsTmp(c) /\ HoldsTmp(d)) => frame[c].tmp_inv # frame[d].tmp_inv
    /\ \A c \in Calls :
          /\ frame[c].launches <= 1
          /\ (frame[c].pc \in {"command", "running"} /\ frame[c].tmp_inv # "None") =>
                /\ OwnFileExists(c)
                /\ fs[frame[c].tmp_inv].data = InventoryText(frame[c].valid_hosts)

\* a file appears, disappears or changes content only when a call creates
\* it under a free name, or when the call that created it unlinks it in its
\* finally clause
C10_Step ==
    \A n \in TmpNames :
        <<fs'[n].exists, fs'[n].data>> # <<fs[n].exists, fs[n].data>> =>
            \E c \in Calls :
                \/ /\ ~fs[n].exists
                   /\ frame[c].pc = "inventory"
                   /\ frame'[c].tmp_inv = n
                   /\ fs'[n].owner = c
                \/ /\ fs[n].owner = c
                   /\ frame[c].tmp_inv = n
                   /\ frame[c].pc = "finally"
                   /\ ~fs'[n].exists

\* C10: under any interleaving, calls in flight use distinct temporary
\* files, a file is deleted only by the call that created it, so the
\* inventory of a call whose process is running is intact, and each call
\* launches at most one process.
C10_Isolation == [](C10_State) /\ [][C10_Step]_vars

C10_Witness ==
    /\ frame["c1"].pc = "running"
    /\ frame["c1"].tmp_inv # "None"
    /\ frame["c2"].pc = "done"
    /\ frame["c2"].created = 1
    /\ frame["c2"].unlinks = 1
    /\ ~frame["c2"].unlink_failed
    /\ fs[frame["c1"].tmp_inv].data = H1 \o <<"\n">>

====
